---- MODULE Spec2Model ----
(***************************************************************************)
(* Model of metrics_101258593.py: the scan of compute_metrics over a list  *)
(* of (time, pid, old_state, new_state) tuples and its final aggregation.  *)
(* The list is consumed one tuple per Step; Finish is the code after the   *)
(* loop (lines 127-148).  Python dicts are functions whose DOMAIN is the   *)
(* set of keys; a float quotient of two small integers is the rational in  *)
(* lowest terms <<num, den>>.                                              *)
(***************************************************************************)
EXTENDS Integers, Sequences, FiniteSets, TLC

\* ---------------------------------------------------------------- bounds
MaxLen  == 3      \* longest list given to compute_metrics (arbitrary lists)
MaxTime == 1      \* times are drawn from 0..MaxTime

\* the pid column is an opaque string; two processes
Pids  == {"1", "2"}
Times == 0..MaxTime

\* (old_state, new_state) pairs of the input tuples.  The scan looks at
\* new_state, and at old_state only when new_state is READY; "ZOMBIE" is a
\* label outside the five states of the simulator.
Transitions ==
  { <<"NEW", "READY">>, <<"WAITING", "READY">>, <<"RUNNING", "READY">>,
    <<"READY", "RUNNING">>, <<"RUNNING", "WAITING">>,
    <<"RUNNING", "TERMINATED">>, <<"READY", "ZOMBIE">> }

Records == { <<t, p, tr[1], tr[2]>> : t \in Times, p \in Pids, tr \in Transitions }

\* ---------------------------------------------------------------- helpers
EmptyDict == [k \in {} |-> 0]

\* d[k] = v of a Python dict
Put(d, k, v) == [x \in (DOMAIN d) \cup {k} |-> IF x = k THEN v ELSE d[x]]

\* d.get(k, default)
Get(d, k, default) == IF k \in DOMAIN d THEN d[k] ELSE default

RECURSIVE SumOver(_, _)
SumOver(d, S) ==
  IF S = {} THEN 0
  ELSE LET k == CHOOSE x \in S : TRUE IN d[k] + SumOver(d, S \ {k})

\* sum(d.values())
SumValues(d) == SumOver(d, DOMAIN d)

\* max(d.values()), d not empty
MaxValues(d) == CHOOSE m \in { d[k] : k \in DOMAIN d } : \A k \in DOMAIN d : d[k] <= m

Abs(x) == IF x < 0 THEN -x ELSE x

RECURSIVE GCD(_, _)
GCD(a, b) == IF b = 0 THEN a ELSE GCD(b, a % b)

\* a / b of Python (b > 0) as the rational in lowest terms
Div(a, b) == LET g == GCD(Abs(a), b) IN <<a \div g, b \div g>>

\* the float literal 0.0
Zero == <<0, 1>>

\* ---------------------------------------------------------------- the scan
\* the five local dicts of compute_metrics before the loop
NoTimeline ==
  [ arrivals |-> EmptyDict, first_run |-> EmptyDict, finish_time |-> EmptyDict,
    wait_time |-> EmptyDict, last_ready_time |-> EmptyDict ]

\* variant: the arrival is kept from the first NEW -> READY only
RuleArrival_FirstOnly(tl, r) ==
  IF r[4] = "READY" /\ r[3] = "NEW"
  THEN [tl EXCEPT !.arrivals = IF r[2] \in DOMAIN tl.arrivals THEN tl.arrivals
                               ELSE Put(tl.arrivals, r[2], r[1]),
                  !.last_ready_time = Put(tl.last_ready_time, r[2], r[1])]
  ELSE tl

\* NEW -> READY: arrival
RuleArrival(tl, r) ==
  IF r[4] = "READY" /\ r[3] = "NEW"
  THEN [tl EXCEPT !.arrivals = Put(tl.arrivals, r[2], r[1]),
                  !.last_ready_time = Put(tl.last_ready_time, r[2], r[1])]
  ELSE tl

\* variant: first_run is overwritten by every dispatch
RuleRunning_LastRun(tl, r) ==
  IF r[4] = "RUNNING"
  THEN LET a == [tl EXCEPT !.first_run = Put(tl.first_run, r[2], r[1])]
       IN  IF r[2] \in DOMAIN a.last_ready_time
           THEN [a EXCEPT !.wait_time =
                   Put(a.wait_time, r[2],
                       Get(a.wait_time, r[2], 0) + (r[1] - a.last_ready_time[r[2]]))]
           ELSE a
  ELSE tl

\* variant: the waiting interval is subtracted the wrong way round
RuleRunning_WaitSwapped(tl, r) ==
  IF r[4] = "RUNNING"
  THEN LET a == IF r[2] \notin DOMAIN tl.first_run
                THEN [tl EXCEPT !.first_run = Put(tl.first_run, r[2], r[1])]
                ELSE tl
       IN  IF r[2] \in DOMAIN a.last_ready_time
           THEN [a EXCEPT !.wait_time =
                   Put(a.wait_time, r[2],
                       Get(a.wait_time, r[2], 0) + (a.last_ready_time[r[2]] - r[1]))]
           ELSE a
  ELSE tl

\* * -> RUNNING
RuleRunning(tl, r) ==
  IF r[4] = "RUNNING"
  THEN LET a == IF r[2] \notin DOMAIN tl.first_run
                THEN [tl EXCEPT !.first_run = Put(tl.first_run, r[2], r[1])]
                ELSE tl
       IN  IF r[2] \in DOMAIN a.last_ready_time
           THEN [a EXCEPT !.wait_time =
                   Put(a.wait_time, r[2],
                       Get(a.wait_time, r[2], 0) + (r[1] - a.last_ready_time[r[2]]))]
           ELSE a
  ELSE tl

\* variant: the largest finish time seen is kept
RuleTerminated_KeepMax(tl, r) ==
  IF r[4] = "TERMINATED"
  THEN [tl EXCEPT !.finish_time =
          Put(tl.finish_time, r[2],
              IF r[2] \in DOMAIN tl.finish_time /\ tl.finish_time[r[2]] > r[1]
              THEN tl.finish_time[r[2]] ELSE r[1])]
  ELSE tl

\* variant: leaving the CPU for WAITING is taken for a completion too
RuleTerminated_AnyExit(tl, r) ==
  IF r[4] \in {"TERMINATED", "WAITING"}
  THEN [tl EXCEPT !.finish_time = Put(tl.finish_time, r[2], r[1])]
  ELSE tl

\* * -> TERMINATED
RuleTerminated(tl, r) ==
  IF r[4] = "TERMINATED"
  THEN [tl EXCEPT !.finish_time = Put(tl.finish_time, r[2], r[1])]
  ELSE tl

\* variant: WAITING -> READY does not re-arm the marker
RuleReady_NoRearm(tl, r) == tl

\* variant: every entry into READY re-arms the marker, whatever the old state
RuleReady_AnyOld(tl, r) ==
  IF r[4] = "READY" /\ r[3] # "NEW"
  THEN [tl EXCEPT !.last_ready_time = Put(tl.last_ready_time, r[2], r[1])]
  ELSE tl

\* variant: one ready marker shared by all pids seen so far
RuleReady_Shared(tl, r) ==
  IF r[4] = "READY" /\ r[3] = "WAITING"
  THEN [tl EXCEPT !.last_ready_time =
          [x \in (DOMAIN tl.last_ready_time) \cup {r[2]} |-> r[1]]]
  ELSE tl

\* WAITING -> READY: back into ready queue
RuleReady(tl, r) ==
  IF r[4] = "READY" /\ r[3] = "WAITING"
  THEN [tl EXCEPT !.last_ready_time = Put(tl.last_ready_time, r[2], r[1])]
  ELSE tl

\* one iteration of the for loop: the four ifs in order
ScanRecord(tl, r) == RuleReady(RuleTerminated(RuleRunning(RuleArrival(tl, r), r), r), r)

\* the whole loop over a list
RECURSIVE Scan(_)
Scan(s) == IF s = <<>> THEN NoTimeline
           ELSE ScanRecord(Scan(SubSeq(s, 1, Len(s) - 1)), s[Len(s)])

\* ---------------------------------------------------------------- aggregation
\* variant: arrival and finish swapped in the subtraction
Turnaround_Swapped(arr, fin) ==
  [p \in (DOMAIN arr) \cap (DOMAIN fin) |-> arr[p] - fin[p]]

\* variant: a missing finish time is read as 0 (finish_time.get(pid, 0))
Turnaround_Default(arr, fin) ==
  [p \in DOMAIN arr |-> Get(fin, p, 0) - arr[p]]

Turnaround(arr, fin) ==
  [p \in (DOMAIN arr) \cap (DOMAIN fin) |-> fin[p] - arr[p]]

Response(arr, fr) ==
  [p \in (DOMAIN arr) \cap (DOMAIN fr) |-> fr[p] - arr[p]]

\* variant: n = len(arrivals), without the floor
CountN_NoFloor(arr) == Cardinality(DOMAIN arr)

\* n = len(arrivals) if arrivals else 1
CountN(arr) == IF DOMAIN arr # {} THEN Cardinality(DOMAIN arr) ELSE 1

\* variant: the quotient without the guard on total_finish_time
Throughput_NoGuard(n, total_finish_time) == Div(n, total_finish_time)

Throughput(n, total_finish_time) ==
  IF total_finish_time > 0 THEN Div(n, total_finish_time) ELSE Zero

Average(d, n) == IF n > 0 THEN Div(SumValues(d), n) ELSE Zero

MetricsOf(tl) ==
  LET n == CountN(tl.arrivals)
      total_finish_time == MaxValues(tl.finish_time)
  IN  [ throughput     |-> Throughput(n, total_finish_time),
        avg_wait_time  |-> Average(tl.wait_time, n),
        avg_turnaround |-> Average(Turnaround(tl.arrivals, tl.finish_time), n),
        avg_response   |-> Average(Response(tl.arrivals, tl.first_run), n) ]

NoMetrics == [ throughput |-> <<>>, avg_wait_time |-> <<>>,
               avg_turnaround |-> <<>>, avg_response |-> <<>> ]

\* ---------------------------------------------------------------- state
VARIABLES
  pc,               \* "scan" in the loop, "returned" / "raised" after it
  transitions,      \* the tuples the loop has consumed, in order
  arrivals, first_run, finish_time, wait_time, last_ready_time,
  turnaround, response,
  metrics,          \* the returned dict (NoMetrics until returned)
  calls,            \* outcomes of the earlier invocations of compute_metrics
  argc,             \* len(sys.argv) of the run
  file,             \* the lines of the file the reader has gone through
  parsed,           \* the list parse_execution_file builds
  mpc,              \* position in main ("engine": compute_metrics called directly)
  printed           \* what the run has printed, in order

engineVars == <<pc, transitions, arrivals, first_run, finish_time, wait_time,
                last_ready_time, turnaround, response, metrics>>

progVars == <<calls, argc, file, parsed, mpc, printed>>

vars == <<pc, transitions, arrivals, first_run, finish_time, wait_time,
          last_ready_time, turnaround, response, metrics,
          calls, argc, file, parsed, mpc, printed>>

Timeline ==
  [ arrivals |-> arrivals, first_run |-> first_run, finish_time |-> finish_time,
    wait_time |-> wait_time, last_ready_time |-> last_ready_time ]

Init ==
  /\ pc = "scan"
  /\ transitions = <<>>
  /\ arrivals = EmptyDict
  /\ first_run = EmptyDict
  /\ finish_time = EmptyDict
  /\ wait_time = EmptyDict
  /\ last_ready_time = EmptyDict
  /\ turnaround = EmptyDict
  /\ response = EmptyDict
  /\ metrics = NoMetrics
  /\ calls = <<>>
  /\ argc = 2
  /\ file = <<>>
  /\ parsed = <<>>
  /\ mpc = "engine"
  /\ printed = <<>>

\* the loop body applied to the next tuple r of the list
Consume(r) ==
  LET tl == ScanRecord(Timeline, r) IN
  /\ transitions' = Append(transitions, r)
  /\ arrivals' = tl.arrivals
  /\ first_run' = tl.first_run
  /\ finish_time' = tl.finish_time
  /\ wait_time' = tl.wait_time
  /\ last_ready_time' = tl.last_ready_time
  /\ UNCHANGED <<pc, turnaround, response, metrics>>

Step ==
  /\ pc = "scan"
  /\ Len(transitions) < MaxLen
  /\ \E r \in Records : Consume(r)
  /\ UNCHANGED progVars

\* the list is exhausted: lines 127-148
Aggregate ==
  /\ pc = "scan"
  /\ turnaround' = Turnaround(arrivals, finish_time)
  /\ response' = Response(arrivals, first_run)
  /\ IF DOMAIN finish_time = {}
     THEN /\ pc' = "raised"
          /\ metrics' = metrics
     ELSE /\ pc' = "returned"
          /\ metrics' = MetricsOf(Timeline)
  /\ UNCHANGED <<transitions, arrivals, first_run, finish_time, wait_time,
                 last_ready_time>>

\* compute_metrics called on its own: the outcome goes to the caller
Finish == Aggregate /\ UNCHANGED progVars

\* ---- lists in which every process follows the scheduler's life cycle
MaxLifeLen == 6   \* longest life-cycle list
MaxLifeTime == 2  \* life-cycle times are drawn from 0..MaxLifeTime

\* state of pid p after the list s ("NONE": not yet admitted)
LifeState(s, p) ==
  LET I == { i \in 1..Len(s) : s[i][2] = p }
  IN  IF I = {} THEN "NONE" ELSE s[CHOOSE m \in I : \A x \in I : x <= m][4]

\* time of the last tuple of p in s (0 if none)
LifeClock(s, p) ==
  LET I == { i \in 1..Len(s) : s[i][2] = p }
  IN  IF I = {} THEN 0 ELSE s[CHOOSE m \in I : \A x \in I : x <= m][1]

LegalNext(st) ==
  CASE st = "NONE"    -> { <<"NEW", "READY">> }
    [] st = "READY"   -> { <<"READY", "RUNNING">> }
    [] st = "RUNNING" -> { <<"RUNNING", "READY">>, <<"RUNNING", "WAITING">>,
                           <<"RUNNING", "TERMINATED">> }
    [] st = "WAITING" -> { <<"WAITING", "READY">> }
    [] OTHER          -> {}

\* the loop body applied to the next tuple of a life-cycle list: a legal
\* transition of some pid, not earlier than that pid's previous tuple
LifeStep ==
  /\ pc = "scan"
  /\ Len(transitions) < MaxLifeLen
  /\ \E p \in Pids :
       \E tr \in LegalNext(LifeState(transitions, p)) :
          \E t \in 0..MaxLifeTime :
             /\ t >= LifeClock(transitions, p)
             /\ Consume(<<t, p, tr[1], tr[2]>>)
  /\ UNCHANGED progVars

NextLife == LifeStep \/ Finish

SpecLife == Init /\ [][NextLife]_vars

\* ---- one process that waits for I/O between its dispatches
MaxMultiLen  == 6    \* longest list
MaxMultiTime == 12   \* times are drawn from 0..MaxMultiTime

\* READY and RUNNING alternate, with RUNNING -> WAITING in between
AlternateNext(st) ==
  CASE st = "NONE"    -> { <<"NEW", "READY">> }
    [] st = "READY"   -> { <<"READY", "RUNNING">> }
    [] st = "RUNNING" -> { <<"RUNNING", "WAITING">>, <<"RUNNING", "TERMINATED">> }
    [] st = "WAITING" -> { <<"WAITING", "READY">> }
    [] OTHER          -> {}

\* the loop body applied to the next tuple of the single process of the list
MultiStep ==
  /\ pc = "scan"
  /\ Len(transitions) < MaxMultiLen
  /\ \E p \in Pids :
       /\ transitions # <<>> => p = transitions[1][2]
       /\ \E tr \in AlternateNext(LifeState(transitions, p)) :
            \E t \in 0..MaxMultiTime :
               /\ t >= LifeClock(transitions, p)
               /\ Consume(<<t, p, tr[1], tr[2]>>)
  /\ UNCHANGED progVars

NextMulti == MultiStep \/ Finish

SpecMulti == Init /\ [][NextMulti]_vars

\* ---- the whole program: main, the reader, the engine, the report
MaxRows == 3      \* lines of the file

\* A line is the tuple of its '|'-separated segments, each stripped:
\* line.split('|') of "|0|1|NEW|READY|" is <<"", "0", "1", "NEW", "READY", "">>.
BorderLine == << "+---+" >>
HeaderLine == << "", "Time of Transition", "PID", "Old State", "New State", "" >>
NoteLine   == << "note" >>
ShortLine  == << "", "0", "1", "" >>

\* texts of the time column of the data rows
TimeCells == { "0", "1", "-1", "x" }

DataLines ==
  { << "", t, p, tr[1], tr[2], "" >> :
      t \in TimeCells, p \in Pids,
      tr \in { <<"NEW", "READY">>, <<"RUNNING", "TERMINATED">> } }

Lines == { BorderLine, HeaderLine, NoteLine, ShortLine } \cup DataLines

\* line.strip().startswith('+') / ('|'): the first segment is what precedes
\* the first '|'
StartsWithPlus(line) == line[1] = "+---+"
StartsWithBar(line)  == line[1] = "" /\ Len(line) >= 2

\* time_str.startswith("Time")
StartsWithTime(cell) == cell = "Time of Transition"

\* int(time_str): the texts it converts, with their values; any other text
\* raises ValueError
IntOf == ("0" :> 0) @@ ("1" :> 1) @@ ("-1" :> -1)

\* variant: the accepted row is put in front of the list
ParseLine_Prepend(acc, line) ==
  IF StartsWithPlus(line) THEN acc
  ELSE IF ~ StartsWithBar(line) THEN acc
  ELSE IF Len(line) < 5 THEN acc
  ELSE IF StartsWithTime(line[2]) THEN acc
  ELSE IF line[2] \notin DOMAIN IntOf THEN acc
  ELSE << <<IntOf[line[2]], line[3], line[4], line[5]>> >> \o acc

\* the body of the reader's loop (lines 38-73) on one line, acc the list so far
ParseLine(acc, line) ==
  IF StartsWithPlus(line) THEN acc
  ELSE IF ~ StartsWithBar(line) THEN acc
  ELSE IF Len(line) < 5 THEN acc
  ELSE IF StartsWithTime(line[2]) THEN acc
  ELSE IF line[2] \notin DOMAIN IntOf THEN acc
  ELSE Append(acc, <<IntOf[line[2]], line[3], line[4], line[5]>>)

InitMain ==
  /\ pc = "scan"
  /\ transitions = <<>>
  /\ arrivals = EmptyDict
  /\ first_run = EmptyDict
  /\ finish_time = EmptyDict
  /\ wait_time = EmptyDict
  /\ last_ready_time = EmptyDict
  /\ turnaround = EmptyDict
  /\ response = EmptyDict
  /\ metrics = NoMetrics
  /\ calls = <<>>
  /\ argc \in 1..3
  /\ file = <<>>
  /\ parsed = <<>>
  /\ mpc = "start"
  /\ printed = <<>>

\* lines 166-171
MainArgs ==
  /\ mpc = "start"
  /\ IF argc # 2
     THEN /\ printed' = Append(printed, "usage")
          /\ mpc' = "done"
     ELSE /\ printed' = printed
          /\ mpc' = "parse"
  /\ UNCHANGED <<calls, argc, file, parsed>>
  /\ UNCHANGED engineVars

\* one iteration of the reader's loop
ReadLine ==
  /\ mpc = "parse"
  /\ Len(file) < MaxRows
  /\ \E line \in Lines :
       /\ file' = Append(file, line)
       /\ parsed' = ParseLine(parsed, line)
  /\ UNCHANGED <<calls, argc, mpc, printed>>
  /\ UNCHANGED engineVars

\* variant: main calls compute_metrics whatever the reader returned
MainCheck_NoEmptyCheck ==
  /\ mpc = "parse"
  /\ mpc' = "compute"
  /\ UNCHANGED <<calls, argc, file, parsed, printed>>
  /\ UNCHANGED engineVars

\* the reader returns (line 75) and main looks at the list (lines 172-174)
MainCheck ==
  /\ mpc = "parse"
  /\ IF parsed = <<>>
     THEN /\ printed' = Append(printed, "no valid transitions")
          /\ mpc' = "done"
     ELSE /\ printed' = printed
          /\ mpc' = "compute"
  /\ UNCHANGED <<calls, argc, file, parsed>>
  /\ UNCHANGED engineVars

\* compute_metrics(transitions) of line 176: the loop takes the next tuple
MainScan ==
  /\ mpc = "compute"
  /\ pc = "scan"
  /\ Len(transitions) < Len(parsed)
  /\ Consume(parsed[Len(transitions) + 1])
  /\ UNCHANGED progVars

\* variant: main catches the error and reports the (empty) metrics
MainAggregate_Swallow ==
  /\ mpc = "compute"
  /\ Len(transitions) = Len(parsed)
  /\ Aggregate
  /\ mpc' = "print"
  /\ UNCHANGED <<calls, argc, file, parsed, printed>>

\* the loop is over: the raise of line 137 is caught nowhere and ends the
\* run, the returned dict goes on to print_metrics
MainAggregate ==
  /\ mpc = "compute"
  /\ Len(transitions) = Len(parsed)
  /\ Aggregate
  /\ mpc' = IF DOMAIN finish_time = {} THEN "aborted" ELSE "print"
  /\ UNCHANGED <<calls, argc, file, parsed, printed>>

\* line 177
PrintMetrics ==
  /\ mpc = "print"
  /\ printed' = Append(printed, "report")
  /\ mpc' = "done"
  /\ UNCHANGED <<calls, argc, file, parsed>>
  /\ UNCHANGED engineVars

NextMain ==
  MainArgs \/ ReadLine \/ MainCheck \/ MainScan \/ MainAggregate \/ PrintMetrics

SpecMain == InitMain /\ [][NextMain]_vars

\* ---- compute_metrics invoked again and again by one caller
MaxCalls   == 2   \* earlier invocations
MaxCallLen == 2   \* longest list of one invocation

\* compute_metrics as a function of its argument: the loop from fresh dicts,
\* then the raise or the returned dict
ComputeMetrics(s) ==
  LET tl == Scan(s)
  IN  IF DOMAIN tl.finish_time = {}
      THEN [ outcome |-> "raised", metrics |-> NoMetrics ]
      ELSE [ outcome |-> "returned", metrics |-> MetricsOf(tl) ]

CallStep ==
  /\ pc = "scan"
  /\ Len(transitions) < MaxCallLen
  /\ \E r \in Records : Consume(r)
  /\ UNCHANGED progVars

\* variant: the five dicts live at module level and survive the call
Call_KeepDicts ==
  /\ pc \in {"returned", "raised"}
  /\ Len(calls) < MaxCalls
  /\ calls' = Append(calls, pc)
  /\ pc' = "scan"
  /\ transitions' = <<>>
  /\ turnaround' = EmptyDict
  /\ response' = EmptyDict
  /\ metrics' = NoMetrics
  /\ UNCHANGED <<arrivals, first_run, finish_time, wait_time, last_ready_time>>
  /\ UNCHANGED <<argc, file, parsed, mpc, printed>>

\* the caller invokes compute_metrics once more: lines 97-101 build the
\* five dicts anew, the locals of the finished invocation are gone
Call ==
  /\ pc \in {"returned", "raised"}
  /\ Len(calls) < MaxCalls
  /\ calls' = Append(calls, pc)
  /\ pc' = "scan"
  /\ transitions' = <<>>
  /\ arrivals' = EmptyDict
  /\ first_run' = EmptyDict
  /\ finish_time' = EmptyDict
  /\ wait_time' = EmptyDict
  /\ last_ready_time' = EmptyDict
  /\ turnaround' = EmptyDict
  /\ response' = EmptyDict
  /\ metrics' = NoMetrics
  /\ UNCHANGED <<argc, file, parsed, mpc, printed>>

NextCalls == CallStep \/ Finish \/ Call

SpecCalls == Init /\ [][NextCalls]_vars

Next == Step \/ Finish

Spec == Init /\ [][Next]_vars

\* ---------------------------------------------------------------- the input, as read from the list
\* positions of the list s holding a tuple of pid p with the given new_state
IntoIdx(s, p, new) == { i \in 1..Len(s) : s[i][2] = p /\ s[i][4] = new }

\* positions holding a NEW -> READY tuple of pid p
ArrivalIdx(s, p) == { i \in IntoIdx(s, p, "READY") : s[i][3] = "NEW" }

\* positions holding a tuple of pid p that re-enters READY (from NEW or WAITING)
ReadyIdx(s, p) == { i \in IntoIdx(s, p, "READY") : s[i][3] \in {"NEW", "WAITING"} }

MinOf(S) == CHOOSE m \in S : \A x \in S : m <= x
MaxOf(S) == CHOOSE m \in S : \A x \in S : x <= m

ArrivedPids(s)    == { p \in Pids : ArrivalIdx(s, p) # {} }
TerminatedPids(s) == { p \in Pids : IntoIdx(s, p, "TERMINATED") # {} }

\* time of the last tuple of p with new_state TERMINATED
LastFinish(s, p) == s[MaxOf(IntoIdx(s, p, "TERMINATED"))][1]

\* latest of the final finish times
LatestFinish(s) == MaxOf({ LastFinish(s, p) : p \in TerminatedPids(s) })

\* q is the quotient a / b (b > 0)
IsQuotient(q, a, b) == q[2] > 0 /\ q[1] * b = a * q[2]

\* ---------------------------------------------------------------- claims

\* C1: a list with no tuple whose new_state is TERMINATED (the empty list
\* included) ends compute_metrics in the error outcome, and no metrics dict
\* is returned.
C1_NoCompletedRaises ==
  (pc # "scan" /\ TerminatedPids(transitions) = {})
     => (pc = "raised" /\ metrics = NoMetrics)

C1_Witness ==
  /\ pc = "raised"
  /\ Len(transitions) = MaxLen
  /\ ArrivedPids(transitions) # {}
  /\ \E p \in Pids : IntoIdx(transitions, p, "RUNNING") # {}

RunningSinceReady(s, p) ==
  /\ IntoIdx(s, p, "RUNNING") # {}
  /\ \A i \in ReadyIdx(s, p) : i < MaxOf(IntoIdx(s, p, "RUNNING"))

\* C3: a RUNNING tuple of a pid that follows an earlier RUNNING tuple of the
\* same pid, with no re-entry into READY between the two, adds nothing to
\* wait_time[pid].
C3_WaitConsumed ==
  [][ \A p \in Pids :
        ( /\ pc = "scan"
          /\ Len(transitions') = Len(transitions) + 1
          /\ transitions'[Len(transitions')][2] = p
          /\ transitions'[Len(transitions')][4] = "RUNNING"
          /\ RunningSinceReady(transitions, p) )
        => wait_time' = wait_time ]_vars

\* C5: with at least one TERMINATED tuple the call returns, and throughput
\* is n / total_finish_time when total_finish_time > 0 and 0 otherwise, n
\* the number of pids with a NEW -> READY tuple (1 if none) and
\* total_finish_time the largest of the pids' final finish times.
C5_Throughput ==
  (pc # "scan" /\ TerminatedPids(transitions) # {}) =>
     /\ pc = "returned"
     /\ LET n == IF ArrivedPids(transitions) = {} THEN 1
                 ELSE Cardinality(ArrivedPids(transitions))
            total == LatestFinish(transitions)
        IN  IF total > 0 THEN IsQuotient(metrics.throughput, n, total)
            ELSE metrics.throughput = Zero

C5_Witness ==
  /\ pc = "returned"
  /\ Cardinality(ArrivedPids(transitions)) = 2
  /\ LatestFinish(transitions) = 1

\* C6: throughput is the number of completed processes (pids that reached
\* TERMINATED) divided by the latest completion time, when that is positive.
C6_CompletedThroughput ==
  (pc = "returned" /\ LatestFinish(transitions) > 0) =>
     IsQuotient(metrics.throughput,
                Cardinality(TerminatedPids(transitions)),
                LatestFinish(transitions))

\* C4: on a time-ordered list in which every process follows the legal
\* life cycle, wait_time[pid] is the total time the process spent in READY
\* before its dispatches into RUNNING.
Sorted(s) == \A i \in 1..Len(s) : \A j \in 1..Len(s) : i < j => s[i][1] <= s[j][1]

\* position of the tuple of the same pid that precedes position i
PrevOfPid(s, i) == MaxOf({ j \in 1..(i - 1) : s[j][2] = s[i][2] })

RECURSIVE ReadyTime(_, _)
\* time spent in READY before the dispatches at positions I (in a life-cycle
\* list the tuple of the pid before a dispatch is its entry into READY)
ReadyTime(s, I) ==
  IF I = {} THEN 0
  ELSE LET i == CHOOSE x \in I : TRUE
       IN  (s[i][1] - s[PrevOfPid(s, i)][1]) + ReadyTime(s, I \ {i})

C4_WaitIsReadyTime ==
  (pc # "scan" /\ Sorted(transitions)) =>
     \A p \in Pids :
        Get(wait_time, p, 0) = ReadyTime(transitions, IntoIdx(transitions, p, "RUNNING"))

\* C7 as stated: for non-negative integer times, in any order, every
\* returned metric is >= 0.
C7_NonNegativeAnyOrder ==
  pc = "returned" =>
     /\ metrics.throughput[1] >= 0
     /\ metrics.avg_wait_time[1] >= 0
     /\ metrics.avg_turnaround[1] >= 0
     /\ metrics.avg_response[1] >= 0

\* no NEW -> READY tuple of a pid comes after a RUNNING or TERMINATED tuple
\* of that pid
ArrivalsFirst(s) ==
  \A p \in Pids : \A i \in ArrivalIdx(s, p) :
     \A j \in IntoIdx(s, p, "RUNNING") \cup IntoIdx(s, p, "TERMINATED") : i < j

\* C7 amended: for non-negative integer times the returned throughput is
\* >= 0 in any order; the three averages are >= 0 when the tuples are in
\* non-decreasing time order and no pid has a NEW -> READY tuple after one
\* of its RUNNING or TERMINATED tuples.
C7_NonNegativeOrdered ==
  pc = "returned" =>
     /\ metrics.throughput[1] >= 0 /\ metrics.throughput[2] > 0
     /\ (Sorted(transitions) /\ ArrivalsFirst(transitions)) =>
          /\ metrics.avg_wait_time[1] >= 0 /\ metrics.avg_wait_time[2] > 0
          /\ metrics.avg_turnaround[1] >= 0 /\ metrics.avg_turnaround[2] > 0
          /\ metrics.avg_response[1] >= 0 /\ metrics.avg_response[2] > 0

C7_Witness ==
  /\ pc = "returned"
  /\ Sorted(transitions) /\ ArrivalsFirst(transitions)
  /\ metrics.avg_wait_time[1] > 0
  /\ metrics.avg_turnaround[1] > 0
  /\ metrics.avg_response[1] > 0

\* the tuples of pid p in s, in order
RECURSIVE OfPid(_, _)
OfPid(s, p) ==
  IF s = <<>> THEN <<>>
  ELSE LET front == OfPid(SubSeq(s, 1, Len(s) - 1), p)
       IN  IF s[Len(s)][2] = p THEN Append(front, s[Len(s)]) ELSE front

\* C8: when every process's tuples are NEW -> READY, then a transition into
\* RUNNING, ..., then a transition into TERMINATED, with no further entry
\* into READY and non-decreasing times within the process, the returned
\* avg_response is <= the returned avg_turnaround.
WellFormed(s) ==
  \A p \in Pids :
     LET q == OfPid(s, p) IN
     q # <<>> =>
        /\ Len(q) >= 3
        /\ q[1][3] = "NEW" /\ q[1][4] = "READY"
        /\ q[2][4] = "RUNNING"
        /\ q[Len(q)][4] = "TERMINATED"
        /\ \A i \in 2..Len(q) : q[i][4] # "READY" /\ q[i - 1][1] <= q[i][1]

C8_ResponseWithinTurnaround ==
  (pc = "returned" /\ WellFormed(transitions)) =>
     \* same denominator n: compare the quotients by cross-multiplication
     metrics.avg_response[1] * metrics.avg_turnaround[2]
        <= metrics.avg_turnaround[1] * metrics.avg_response[2]

C8_Witness ==
  /\ pc = "returned"
  /\ WellFormed(transitions)
  /\ \A p \in Pids : OfPid(transitions, p) # <<>>
  /\ ~ Sorted(transitions)
  /\ metrics.avg_response[1] > 0
  /\ metrics.avg_response # metrics.avg_turnaround

\* the entries of pid p in the five dicts
EntriesOf(tl, p) ==
  [ arrivals        |-> IF p \in DOMAIN tl.arrivals THEN <<tl.arrivals[p]>> ELSE <<>>,
    first_run       |-> IF p \in DOMAIN tl.first_run THEN <<tl.first_run[p]>> ELSE <<>>,
    finish_time     |-> IF p \in DOMAIN tl.finish_time THEN <<tl.finish_time[p]>> ELSE <<>>,
    wait_time       |-> IF p \in DOMAIN tl.wait_time THEN <<tl.wait_time[p]>> ELSE <<>>,
    last_ready_time |-> IF p \in DOMAIN tl.last_ready_time THEN <<tl.last_ready_time[p]>> ELSE <<>> ]

\* same, after the step
EntriesOfNext(p) ==
  [ arrivals        |-> IF p \in DOMAIN arrivals' THEN <<arrivals'[p]>> ELSE <<>>,
    first_run       |-> IF p \in DOMAIN first_run' THEN <<first_run'[p]>> ELSE <<>>,
    finish_time     |-> IF p \in DOMAIN finish_time' THEN <<finish_time'[p]>> ELSE <<>>,
    wait_time       |-> IF p \in DOMAIN wait_time' THEN <<wait_time'[p]>> ELSE <<>>,
    last_ready_time |-> IF p \in DOMAIN last_ready_time' THEN <<last_ready_time'[p]>> ELSE <<>> ]

\* C9: processing a tuple of pid p changes only p's entries of the five
\* dicts, and whatever the interleaving, each pid's entries are those
\* obtained by scanning that pid's own tuples alone.
C9_PerPidIndependent ==
  /\ [](\A p \in Pids :
          EntriesOf(Timeline, p) = EntriesOf(Scan(OfPid(transitions, p)), p))
  /\ [][ Len(transitions') = Len(transitions) + 1 =>
           \A q \in Pids \ {transitions'[Len(transitions')][2]} :
              EntriesOfNext(q) = EntriesOf(Timeline, q) ]_vars

C9_Witness ==
  /\ Len(transitions) = 3
  /\ transitions[1][2] = transitions[3][2]
  /\ transitions[1][2] # transitions[2][2]
  /\ \A p \in Pids : p \in DOMAIN last_ready_time
  /\ \E p \in Pids : p \in DOMAIN wait_time /\ wait_time[p] > 0

RECURSIVE SumOfSet(_, _, _)
\* the sum over p in S of a[p] - b[p]
SumOfSet(S, a, b) ==
  IF S = {} THEN 0
  ELSE LET p == CHOOSE x \in S : TRUE IN (a[p] - b[p]) + SumOfSet(S \ {p}, a, b)

LastArrivalOf(s) == [p \in ArrivedPids(s) |-> s[MaxOf(ArrivalIdx(s, p))][1]]
LastFinishOf(s)  == [p \in TerminatedPids(s) |-> LastFinish(s, p)]
FirstRunOf(s)    == [p \in { x \in Pids : IntoIdx(s, x, "RUNNING") # {} } |->
                        s[MinOf(IntoIdx(s, p, "RUNNING"))][1]]

\* C10: a pid with an arrival but no TERMINATED tuple adds no term to the
\* turnaround sum, is counted in the n that divides the three averages and
\* enters the throughput, and does not cause the error (which depends on
\* the TERMINATED tuples alone).
C10_UnfinishedCounted ==
  LET arrived  == ArrivedPids(transitions)
      finished == TerminatedPids(transitions)
      n        == Cardinality(arrived)
  IN  (pc # "scan" /\ arrived \ finished # {}) =>
        /\ (arrived \ finished) \cap DOMAIN turnaround = {}
        /\ pc = "raised" <=> finished = {}
        /\ pc = "returned" =>
             /\ IsQuotient(metrics.avg_turnaround,
                           SumOfSet(arrived \cap finished, LastFinishOf(transitions),
                                    LastArrivalOf(transitions)), n)
             /\ IsQuotient(metrics.avg_response,
                           SumOfSet(arrived \cap DOMAIN FirstRunOf(transitions),
                                    FirstRunOf(transitions), LastArrivalOf(transitions)), n)
             /\ IsQuotient(metrics.avg_wait_time, SumValues(wait_time), n)
             /\ LatestFinish(transitions) > 0 =>
                  IsQuotient(metrics.throughput, n, LatestFinish(transitions))

C10_Witness ==
  /\ pc = "returned"
  /\ ArrivedPids(transitions) \ TerminatedPids(transitions) # {}
  /\ ArrivedPids(transitions) \cap TerminatedPids(transitions) # {}
  /\ metrics.avg_turnaround[1] > 0
  /\ metrics.avg_turnaround[2] = 2

\* C11: compute_metrics keeps nothing between invocations: whatever
\* invocations came before (returned or raised), the outcome on a list is
\* the outcome of a first invocation on that list.
C11_NoStateBetweenCalls ==
  pc # "scan" =>
     [ outcome |-> pc, metrics |-> metrics ] = ComputeMetrics(transitions)

C11_Witness ==
  /\ pc = "returned"
  /\ Len(transitions) = MaxCallLen
  /\ Len(calls) >= 2
  /\ \E i \in 1..Len(calls) : calls[i] = "raised"
  /\ \E i \in 1..Len(calls) : calls[i] = "returned"

\* C12: a list with at least one TERMINATED tuple always returns a metrics
\* dict and never ends in an error: every quotient has a non-zero divisor
\* (a denominator 0 is the ZeroDivisionError), also without any NEW -> READY
\* tuple and when the latest finish time is 0.
C12_TerminatedAlwaysReturns ==
  (pc # "scan" /\ TerminatedPids(transitions) # {}) =>
     /\ pc = "returned"
     /\ metrics.throughput[2] > 0
     /\ metrics.avg_wait_time[2] > 0
     /\ metrics.avg_turnaround[2] > 0
     /\ metrics.avg_response[2] > 0

C12_Witness ==
  /\ pc = "returned"
  /\ ArrivedPids(transitions) = {}
  /\ LatestFinish(transitions) = 0
  /\ Len(transitions) = MaxLen

\* C13: finish_time[pid] is overwritten by every TERMINATED tuple of pid: it
\* is the time of the LAST such tuple in list order, not the largest, and
\* total_finish_time (which decides the throughput) is the maximum of these
\* per-pid last values.
C13_LastFinishWins ==
  /\ DOMAIN finish_time = TerminatedPids(transitions)
  /\ \A p \in DOMAIN finish_time : finish_time[p] = LastFinish(transitions, p)
  /\ pc = "returned" =>
       /\ MaxValues(finish_time) = LatestFinish(transitions)
       /\ metrics.throughput = Throughput(CountN(arrivals), LatestFinish(transitions))

C13_Witness ==
  /\ pc = "returned"
  /\ \E p \in Pids :
        \E i \in IntoIdx(transitions, p, "TERMINATED") :
           transitions[i][1] > finish_time[p]

\* C18: first_run[pid] is set by the first tuple of pid with new_state
\* RUNNING, whatever its old_state, and no later tuple changes it; the
\* response of a pid is taken from that first dispatch.
C18_FirstRunOnce ==
  /\ DOMAIN first_run = { p \in Pids : IntoIdx(transitions, p, "RUNNING") # {} }
  /\ \A p \in DOMAIN first_run :
        first_run[p] = transitions[MinOf(IntoIdx(transitions, p, "RUNNING"))][1]
  /\ pc # "scan" =>
       /\ DOMAIN response = (DOMAIN arrivals) \cap (DOMAIN first_run)
       /\ \A p \in DOMAIN response :
             response[p] = transitions[MinOf(IntoIdx(transitions, p, "RUNNING"))][1]
                             - arrivals[p]

C18_Witness ==
  /\ pc # "scan"
  /\ \E p \in DOMAIN response :
        /\ Cardinality(IntoIdx(transitions, p, "RUNNING")) >= 2
        /\ transitions[MaxOf(IntoIdx(transitions, p, "RUNNING"))][1] # first_run[p]

\* the tuple matches none of the four ifs of the loop body
MatchesNoRule(r) ==
  /\ r[4] \notin {"RUNNING", "TERMINATED"}
  /\ ~ (r[4] = "READY" /\ r[3] \in {"NEW", "WAITING"})

\* the ifs of the loop body that change the dicts tl on tuple r
RulesFiring(tl, r) ==
  { k \in 1..4 : CASE k = 1 -> RuleArrival(tl, r) # tl
                   [] k = 2 -> RuleRunning(tl, r) # tl
                   [] k = 3 -> RuleTerminated(tl, r) # tl
                   [] k = 4 -> RuleReady(tl, r) # tl }

\* C20: a tuple takes effect through at most one of the four ifs, and a
\* tuple that matches none (new_state WAITING or an unknown label, or an
\* entry into READY from an old_state other than NEW and WAITING) leaves
\* all five dicts unchanged, last_ready_time included.
C20_OneRuleOrNone ==
  [][ Len(transitions') = Len(transitions) + 1 =>
        LET r == transitions'[Len(transitions')] IN
        /\ Cardinality(RulesFiring(Timeline, r)) <= 1
        /\ MatchesNoRule(r) =>
             UNCHANGED <<arrivals, first_run, finish_time, wait_time, last_ready_time>>
    ]_vars

C20_Witness ==
  /\ Len(transitions) = 3
  /\ transitions[1][2] = transitions[3][2]
  /\ transitions[2][2] = transitions[3][2]
  /\ transitions[1][3] = "NEW" /\ transitions[1][4] = "READY"
  /\ transitions[2][4] = "RUNNING"
  /\ transitions[3][3] = "RUNNING" /\ transitions[3][4] = "READY"
  /\ transitions[3][1] > last_ready_time[transitions[3][2]]

\* position of the READY entry (NEW -> READY or WAITING -> READY) of the
\* same pid that precedes the dispatch at position i
ReadyEntryBefore(s, i) == MaxOf({ j \in ReadyIdx(s, s[i][2]) : j < i })

RECURSIVE DispatchWaits(_, _)
\* sum over the dispatches at positions I of (dispatch time - time of the
\* READY entry before it)
DispatchWaits(s, I) ==
  IF I = {} THEN 0
  ELSE LET i == CHOOSE x \in I : TRUE
       IN  (s[i][1] - s[ReadyEntryBefore(s, i)][1]) + DispatchWaits(s, I \ {i})

MultiWaitExample ==
  << <<0, "1", "NEW", "READY">>,       <<2, "1", "READY", "RUNNING">>,
     <<4, "1", "RUNNING", "WAITING">>, <<6, "1", "WAITING", "READY">>,
     <<10, "1", "READY", "RUNNING">>,  <<12, "1", "RUNNING", "TERMINATED">> >>

\* C19: for a process that alternates between entering READY (NEW -> READY,
\* then WAITING -> READY) and being dispatched, wait_time[pid] is the sum
\* over its dispatches of (dispatch time - time of the READY entry just
\* before); READY(0) RUNNING(2) WAITING(4) READY(6) RUNNING(10)
\* TERMINATED(12) gives wait 6, turnaround 12, response 2.
C19_MultiWait ==
  /\ \A p \in Pids :
        Get(wait_time, p, 0)
          = DispatchWaits(transitions, IntoIdx(transitions, p, "RUNNING"))
  /\ (pc = "returned" /\ transitions = MultiWaitExample) =>
        /\ wait_time["1"] = 6
        /\ turnaround["1"] = 12
        /\ response["1"] = 2

C19_Witness ==
  /\ pc = "returned"
  /\ transitions = MultiWaitExample

\* C14: every tuple the reader emits has a non-negative integer time: a row
\* whose time column is not numeric, or is a negative integer, is discarded
\* and never reaches the engine.
C14_TimesNonNegative ==
  /\ \A i \in 1..Len(parsed) : parsed[i][1] \in Nat
  /\ \A i \in 1..Len(transitions) : transitions[i][1] \in Nat

\* the rows of f the reader keeps: table rows of at least five segments
\* whose time column is not the header's and converts to an integer
KeptIdx(f) ==
  { i \in 1..Len(f) :
      /\ f[i][1] = "" /\ Len(f[i]) >= 5
      /\ f[i][2] # "Time of Transition"
      /\ f[i][2] \in {"0", "1", "-1"} }

\* the k-th smallest element of the set of positions A
Kth(A, k) == CHOOSE i \in A : Cardinality({ j \in A : j < i }) = k - 1

\* C15: the list the reader builds holds the kept rows of the file in file
\* order (rows of equal time included), and the engine scans that list from
\* its start in the same order: nothing is re-sorted.
C15_OrderPreserved ==
  /\ Len(parsed) = Cardinality(KeptIdx(file))
  /\ \A k \in 1..Len(parsed) :
        LET row == file[Kth(KeptIdx(file), k)]
        IN  /\ parsed[k][2] = row[3]
            /\ parsed[k][3] = row[4]
            /\ parsed[k][4] = row[5]
            /\ row[2] = CHOOSE c \in DOMAIN IntOf : IntOf[c] = parsed[k][1]
  /\ Len(transitions) <= Len(parsed)
  /\ \A k \in 1..Len(transitions) : transitions[k] = parsed[k]

C15_Witness ==
  /\ mpc = "done"
  /\ Len(file) = 3
  /\ KeptIdx(file) = {1, 3}
  /\ Len(transitions) = 2
  /\ transitions[1][1] = transitions[2][1]
  /\ transitions[1] # transitions[2]

Reported == \E i \in 1..Len(printed) : printed[i] = "report"

\* C16: when the parsed list is non-empty but has no TERMINATED tuple, the
\* error of compute_metrics ends the run and no report is printed; in every
\* run a report is printed only after compute_metrics returned a dict.
C16_ErrorAbortsReport ==
  /\ Reported => pc = "returned"
  /\ ( /\ mpc \in {"done", "aborted"}
       /\ parsed # <<>>
       /\ \A i \in 1..Len(parsed) : parsed[i][4] # "TERMINATED" )
     => (mpc = "aborted" /\ pc = "raised" /\ ~ Reported)

C16_Witness ==
  /\ mpc = "aborted"
  /\ Len(parsed) >= 2
  /\ printed = <<>>

\* C17: when the reader yields no tuple, main prints the 'no valid
\* transitions' message and never invokes compute_metrics, so the error of
\* compute_metrics cannot occur for an empty list.
C17_EmptyNotComputed ==
  /\ mpc \in {"compute", "print", "aborted"} => parsed # <<>>
  /\ (mpc \in {"done", "aborted"} /\ argc = 2 /\ parsed = <<>>)
       => /\ mpc = "done"
          /\ printed = << "no valid transitions" >>
          /\ pc = "scan"

C17_Witness ==
  /\ mpc = "done"
  /\ argc = 2
  /\ parsed = <<>>
  /\ Len(file) = MaxRows
  /\ \E i \in 1..Len(file) : file[i] \in DataLines

====
